---- MODULE Spec2Model ----
(***************************************************************************)
(* A model of create_graph.py: the pension projection (AMR_Graph), the     *)
(* configuration check (validate_config), the rounding helper              *)
(* (to_decimal_round) and the script body with its five-minute watchdog    *)
(* thread (exit_after_5_mins).                                             *)
(*                                                                         *)
(* Numbers.  TLC's integers are 32 bits wide, the program's Decimals carry *)
(* 28 significant digits and its floats 53 bits, so every number of the    *)
(* program is kept as an arbitrary-precision value: a natural number is a  *)
(* sequence of limbs, least significant first (zero is the empty           *)
(* sequence).  A Python value is a record                                  *)
(*    [t, neg, c, d, s]                                                    *)
(* t = "int":     the integer  (-1)^neg * c                  (d = 0)       *)
(* t = "Decimal": the decimal  (-1)^neg * c / 10^d, kept with no trailing  *)
(*                fractional zero: numerically equal Decimals are equal    *)
(*                records, as Python's == has it                           *)
(* t = "float":   the binary64 (-1)^neg * c / 2^d, c <= 2^53               *)
(* t = "str":     the string s, a sequence of one-character strings        *)
(* t = an exception name: the expression raised ("TypeError", ...).        *)
(*                                                                         *)
(* An intermediate result that is needed more than once is handed to a     *)
(* helper operator as an argument, which evaluates it once.                *)
(***************************************************************************)
EXTENDS Integers, Sequences, FiniteSets, TLC

(* ------------------------- natural numbers ----------------------------- *)
(* A natural number is the sequence of its limbs of four decimal digits    *)
(* (base 10^4), least significant first, without leading zero limbs: a     *)
(* recursion over limbs is a quarter as deep as the number is long, and a  *)
(* product of two limbs stays below 2^31.                                  *)

\* the largest (least) element of a small non-empty set of integers
MaxOf(S) == CHOOSE i \in S : \A j \in S : j <= i
MinOf(S) == CHOOSE i \in S : \A j \in S : i <= j
Max(i, j) == IF i >= j THEN i ELSE j
Min(i, j) == IF i <= j THEN i ELSE j

LimbBase == 10 ^ 4

\* how many of x's most significant limbs are zeros before the first that
\* is not
HighZeros(x) ==
  Cardinality({i \in 1..Len(x) : \A j \in 1..i : x[Len(x) + 1 - j] = 0})
\* drops the most significant zeros
Trim(x) == SubSeq(x, 1, Len(x) - HighZeros(x))

\* limb i of x, 1 being the least significant
At(x, i) == IF i <= Len(x) THEN x[i] ELSE 0
Odd(x) == At(x, 1) % 2 = 1

\* decimal digit i of x, 1 being the least significant
Digit(x, i) == (At(x, (i - 1) \div 4 + 1) \div (10 ^ ((i - 1) % 4))) % 10
\* the number of decimal digits of a limb, and of x
LimbDigits(n) ==
  IF n >= 1000 THEN 4 ELSE IF n >= 100 THEN 3 ELSE IF n >= 10 THEN 2
  ELSE IF n >= 1 THEN 1 ELSE 0
NatLen(x) == IF x = <<>> THEN 0 ELSE 4 * (Len(x) - 1) + LimbDigits(x[Len(x)])
\* how many of x's low decimal digits are zeros, counting no more than most
LowZeros(x, most) ==
  Cardinality({i \in 1..Min(most, NatLen(x)) : \A j \in 1..i : Digit(x, j) = 0})

RECURSIVE AddC(_, _, _, _)
\* the limbs of x + y from position i up, given the carry into position i
AddC(x, y, i, carry) ==
  IF i > Len(x) /\ i > Len(y) THEN (IF carry = 0 THEN <<>> ELSE <<carry>>)
  ELSE <<(At(x, i) + At(y, i) + carry) % LimbBase>>
         \o AddC(x, y, i + 1, (At(x, i) + At(y, i) + carry) \div LimbBase)

NatAdd(a, b) == AddC(a, b, 1, 0)

RECURSIVE SubB(_, _, _, _)
\* the limbs of x - y from position i up, for x >= y, given the borrow
SubB(x, y, i, borrow) ==
  IF i > Len(x) THEN <<>>
  ELSE IF x[i] - At(y, i) - borrow < 0
       THEN <<x[i] - At(y, i) - borrow + LimbBase>> \o SubB(x, y, i + 1, 1)
       ELSE <<x[i] - At(y, i) - borrow>> \o SubB(x, y, i + 1, 0)

NatSub(a, b) == Trim(SubB(a, b, 1, 0))

RECURSIVE CmpFrom(_, _, _)
\* compares numbers of equally many limbs from limb i downwards: -1, 0, 1
CmpFrom(x, y, i) ==
  IF i = 0 THEN 0
  ELSE IF x[i] < y[i] THEN -1
  ELSE IF x[i] > y[i] THEN 1
  ELSE CmpFrom(x, y, i - 1)

\* -1, 0, 1 as a < b, a = b, a > b
NatCmp(a, b) ==
  IF Len(a) < Len(b) THEN -1
  ELSE IF Len(a) > Len(b) THEN 1
  ELSE CmpFrom(a, b, Len(a))

RECURSIVE MulC(_, _, _, _)
\* the limbs of x * k from position i up, for a factor 0 < k <= 10^5
MulC(x, k, i, carry) ==
  IF i > Len(x) THEN (IF carry = 0 THEN <<>>
                      ELSE <<carry % LimbBase>>
                             \o MulC(x, k, i + 1, carry \div LimbBase))
  ELSE <<(x[i] * k + carry) % LimbBase>>
         \o MulC(x, k, i + 1, (x[i] * k + carry) \div LimbBase)

NatMulSmall(a, k) == IF k = 0 THEN <<>> ELSE MulC(a, k, 1, 0)

RECURSIVE MulFrom(_, _, _)
\* x * (y without its j - 1 low limbs)
MulFrom(x, y, j) ==
  IF j > Len(y) THEN <<>>
  ELSE IF j = Len(y) THEN MulC(x, y[j], 1, 0)
  ELSE AddC(IF y[j] = 0 THEN <<>> ELSE MulC(x, y[j], 1, 0),
            <<0>> \o MulFrom(x, y, j + 1), 1, 0)

NatMul(a, b) == IF a = <<>> \/ b = <<>> THEN <<>> ELSE MulFrom(a, b, 1)

Zeros(k) == [i \in 1..k |-> 0]

\* a * 10^k
ShiftUp(a, k) ==
  IF a = <<>> THEN a ELSE Zeros(k \div 4) \o MulC(a, 10 ^ (k % 4), 1, 0)

\* the quotient limbs so far, one more limb in front, and the new remainder
DivStep(up, x, k, i) ==
  <<<<(up[2] * LimbBase + x[i]) \div k>> \o up[1],
    (up[2] * LimbBase + x[i]) % k>>

RECURSIVE DivC(_, _, _)
\* long division of x by 0 < k <= 10^5, from limb i up to the most
\* significant one: <<quotient limbs, remainder>>
DivC(x, k, i) ==
  IF i > Len(x) THEN <<<<>>, 0>> ELSE DivStep(DivC(x, k, i + 1), x, k, i)

NatDivSmall(a, k) == Trim(DivC(a, k, 1)[1])
NatModSmall(a, k) == DivC(a, k, 1)[2]

\* a \div 10^k
ShiftDown(a, k) ==
  NatDivSmall(SubSeq(a, k \div 4 + 1, Len(a)), 10 ^ (k % 4))

\* the number 0 <= n < 2^31
NatFromInt(n) ==
  Trim(<<n % LimbBase, (n \div LimbBase) % LimbBase,
         n \div (LimbBase * LimbBase)>>)
\* the integer of a number below 2^31
NatToInt(a) ==
  At(a, 1) + LimbBase * At(a, 2) + LimbBase * LimbBase * At(a, 3)

(* --------------------------- Python values ----------------------------- *)

Val(t, neg, c, d) == [t |-> t, neg |-> neg, c |-> c, d |-> d, s |-> <<>>]
Str(s) == [t |-> "str", neg |-> FALSE, c |-> <<>>, d |-> 0, s |-> s]
\* the value of an expression that raised
Exc(name) == [t |-> name, neg |-> FALSE, c |-> <<>>, d |-> 0, s |-> <<>>]
IsExc(v) == v.t \in {"TypeError", "InvalidOperation", "ValueError"}
PyInt(n) == Val("int", n < 0, NatFromInt(IF n < 0 THEN -n ELSE n), 0)
\* v < 0 for an int or a Decimal
Negative(v) == v.neg /\ v.c # <<>>

\* the precision of decimal's default context (getcontext().prec)
Prec == 28
\* the bits of a binary64 significand
MantissaBits == 53

\* (-1)^neg * c / 10^d without its z low digits, which are zeros
Stripped(neg, c, d, z) ==
  Val("Decimal", neg /\ c # <<>>, ShiftDown(c, z),
      IF c = <<>> THEN 0 ELSE d - z)

\* the Decimal (-1)^neg * c / 10^d without trailing fractional zeros
DecNorm(neg, c, d) == Stripped(neg, c, d, LowZeros(c, d))

\* whether a coefficient that loses its k low digits is rounded up, q being
\* what is left of it
RoundsUp(c, k, q, rounding) ==
  IF rounding = "ROUND_HALF_EVEN"
  THEN Digit(c, k) > 5
       \/ (Digit(c, k) = 5
             /\ (Odd(q) \/ \E j \in 1..(k - 1) : Digit(c, j) # 0))
  ELSE Digit(c, k) >= 5

\* q, the coefficient c without its k low digits, rounded on them
Rounded(c, k, q, rounding) ==
  IF RoundsUp(c, k, q, rounding) THEN NatAdd(q, <<1>>) ELSE q

\* c without its k low digits, rounded on what was dropped: ROUND_HALF_EVEN
\* (the context's rounding) or ROUND_HALF_UP
RoundDrop(c, k, rounding) ==
  IF k <= 0 THEN c ELSE Rounded(c, k, ShiftDown(c, k), rounding)

\* the Decimal (-1)^neg * q / 10^e, whose e may be negative
Fitted(neg, q, e) == DecNorm(neg, ShiftUp(q, Max(0 - e, 0)), Max(e, 0))

\* the result of an arithmetic operation, rounded to the context's precision
Fix(neg, c, d) ==
  Fitted(neg, RoundDrop(c, NatLen(c) - Prec, "ROUND_HALF_EVEN"),
         d - Max(NatLen(c) - Prec, 0))

\* <<sign, magnitude>> of (-1)^nega * ca + (-1)^negb * cb
SignedAdd(nega, ca, negb, cb) ==
  IF nega = negb THEN <<nega, NatAdd(ca, cb)>>
  ELSE IF NatCmp(ca, cb) >= 0 THEN <<nega, NatSub(ca, cb)>>
  ELSE <<negb, NatSub(cb, ca)>>

Summed(sum, d) == Fix(sum[1], sum[2], d)

\* Decimal + Decimal (an int operand is converted exactly first): the exact
\* sum at the finer of the two scales, then rounded
DecAdd(a, b) ==
  Summed(SignedAdd(a.neg, ShiftUp(a.c, Max(a.d, b.d) - a.d),
                   b.neg, ShiftUp(b.c, Max(a.d, b.d) - b.d)),
         Max(a.d, b.d))

DecNeg(a) == [a EXCEPT !.neg = ~a.neg /\ a.c # <<>>]
DecMul(a, b) == Fix(a.neg # b.neg, NatMul(a.c, b.c), a.d + b.d)
\* Decimal / 100: the quotient is exact, two digits further right
DecDiv100(a) == Fix(a.neg, a.c, a.d + 2)

\* the quantized coefficient q, if the context's precision holds it
Quantized(neg, q, places) ==
  IF NatLen(q) > Prec THEN Exc("InvalidOperation") ELSE DecNorm(neg, q, places)

\* dec.quantize(Decimal('1.00..0' with `places` zeros), rounding):
\* InvalidOperation when the quantized coefficient needs more than Prec
\* digits; a dec that is an exception stands for an operand that raised
quantize(dec, places, rounding) ==
  IF IsExc(dec) THEN dec
  ELSE IF dec.d <= places
  THEN IF dec.c # <<>> /\ NatLen(dec.c) + (places - dec.d) > Prec
       THEN Exc("InvalidOperation") ELSE dec
  ELSE Quantized(dec.neg, RoundDrop(dec.c, dec.d - places, rounding), places)

(* ------------------------------ binary64 ------------------------------- *)

\* powers are taken sixteen (seven) factors at a time to keep factors small
RECURSIVE Pow2(_)
Pow2(k) ==
  IF k <= 16 THEN NatFromInt(2 ^ k) ELSE NatMulSmall(Pow2(k - 16), 2 ^ 16)
RECURSIVE Pow5(_)
Pow5(k) ==
  IF k <= 7 THEN NatFromInt(5 ^ k) ELSE NatMulSmall(Pow5(k - 7), 5 ^ 7)

RECURSIVE DivPow2(_, _, _)
\* <<a \div 2^k, whether the division (and those before it) left nothing>>
DivPow2(a, k, exact) ==
  IF k <= 16 THEN <<NatDivSmall(a, 2 ^ k), exact /\ NatModSmall(a, 2 ^ k) = 0>>
  ELSE DivPow2(NatDivSmall(a, 2 ^ 16), k - 16,
               exact /\ NatModSmall(a, 2 ^ 16) = 0)

\* the number of bits of a
\* (a number of n digits has between 3.32 (n - 1) and 3.33 n bits)
BitLen(a) ==
  IF a = <<>> THEN 0
  ELSE MinOf({k \in ((332 * (NatLen(a) - 1)) \div 100)
                        ..((333 * NatLen(a)) \div 100 + 1) :
                NatCmp(a, Pow2(k)) < 0})

\* q, or the next integer when the half bit below q is set and either more
\* follows it or q is odd (round-half-to-even)
Nearest(neg, q, half, more, d) ==
  Val("float", neg, IF half /\ (more \/ Odd(q)) THEN NatAdd(q, <<1>>) ELSE q, d)

\* halves is <<x \div 2^(s-1), whether that was exact>>
Halved(neg, halves, more, d) ==
  Nearest(neg, NatDivSmall(halves[1], 2), Odd(halves[1]),
          more \/ ~halves[2], d)

\* x without its s low bits, rounded on them
Shifted(neg, x, d, more, s) ==
  IF s <= 0 THEN Val("float", neg, x, d)
  ELSE Halved(neg, DivPow2(x, s - 1, TRUE), more, d - s)

\* the binary64 nearest to (x + fraction) / 2^d, ties to even, where
\* `more` says that the fraction (below x's last bit) is not zero:
\* (-1)^neg * c / 2^d' with c of at most MantissaBits bits (or 2^MantissaBits)
RoundBits(neg, x, d, more) == Shifted(neg, x, d, more, BitLen(x) - MantissaBits)

\* qr is <<limbs of the quotient, remainder>> of c * 2^(MantissaBits + 9)
\* by 100
Quotient(neg, qr) ==
  RoundBits(neg, Trim(qr[1]), MantissaBits + 9, qr[2] # 0)

\* int / 100: the correctly rounded binary64 quotient
IntDiv100(a) ==
  IF a.c = <<>> THEN Val("float", FALSE, <<>>, 0)
  ELSE Quotient(a.neg, DivC(NatMul(a.c, Pow2(MantissaBits + 9)), 100, 1))

\* int * float: the correctly rounded binary64 product (the int, below
\* 2^MantissaBits, becomes a float exactly)
IntMulFloat(a, f) == RoundBits(a.neg # f.neg, NatMul(a.c, f.c), f.d, FALSE)

\* Decimal(float): the float's exact value, c / 2^d = c * 5^d / 10^d
\* (d >= 0: the floats of the program are below 2^MantissaBits)
FloatToDecimal(f) == DecNorm(f.neg, NatMul(f.c, Pow5(f.d)), f.d)

(* ------------------------------ strings -------------------------------- *)

DigitChars == {"0", "1", "2", "3", "4", "5", "6", "7", "8", "9"}
DigitVal(ch) ==
  CASE ch = "0" -> 0 [] ch = "1" -> 1 [] ch = "2" -> 2 [] ch = "3" -> 3
    [] ch = "4" -> 4 [] ch = "5" -> 5 [] ch = "6" -> 6 [] ch = "7" -> 7
    [] ch = "8" -> 8 [] ch = "9" -> 9

NotComma(ch) == ch # ","
NotPoint(ch) == ch # "."
\* value.replace(",", "")
StripCommas(s) == SelectSeq(s, NotComma)
\* '.' in value
HasPoint(s) == \E i \in 1..Len(s) : s[i] = "."

Signed(s) == s # <<>> /\ s[1] \in {"-", "+"}
Unsigned(s) == IF Signed(s) THEN Tail(s) ELSE s
AllDigits(s) == s # <<>> /\ \A i \in 1..Len(s) : s[i] \in DigitChars
\* the digit that is character i of s from its end, 0 beyond its start
CharDigit(s, i) == IF i <= Len(s) THEN DigitVal(s[Len(s) + 1 - i]) ELSE 0
\* the number whose digits are the characters of s, first character first
NatOfChars(s) ==
  Trim([j \in 1..((Len(s) + 3) \div 4) |->
          CharDigit(s, 4 * j - 3) + 10 * CharDigit(s, 4 * j - 2)
            + 100 * CharDigit(s, 4 * j - 1) + 1000 * CharDigit(s, 4 * j)])

\* int(s) for s over digits, signs, points, commas and letters: an optional
\* sign and at least one digit, or ValueError
ParseInt(s) ==
  IF AllDigits(Unsigned(s))
  THEN Val("int", s[1] = "-" /\ NatOfChars(Unsigned(s)) # <<>>,
           NatOfChars(Unsigned(s)), 0)
  ELSE Exc("ValueError")

\* how many characters of body follow its last point
AfterPoint(body) ==
  IF HasPoint(body)
  THEN Len(body) - MaxOf({i \in 1..Len(body) : body[i] = "."}) ELSE 0

\* the Decimal of an unsigned text
ParseBody(neg, body) ==
  IF Cardinality({i \in 1..Len(body) : body[i] = "."}) <= 1
     /\ AllDigits(SelectSeq(body, NotPoint))
  THEN DecNorm(neg, NatOfChars(SelectSeq(body, NotPoint)), AfterPoint(body))
  ELSE Exc("InvalidOperation")

\* Decimal(s) for such an s: an optional sign, digits with at most one
\* point and at least one digit, or decimal.InvalidOperation, which is an
\* ArithmeticError and not a ValueError
ParseDecimal(s) == ParseBody(s # <<>> /\ s[1] = "-", Unsigned(s))

(* ------------------------- Python's operators -------------------------- *)

Numeric(v) == v.t \in {"int", "Decimal"}

\* a * b: Decimal and int multiply as Decimals, int and float as floats,
\* Decimal and float do not multiply, nor does a str with either
\* (b is a rate, a Decimal or a float)
PyMul(a, b) ==
  IF IsExc(a) THEN a ELSE IF IsExc(b) THEN b
  ELSE IF Numeric(a) /\ b.t = "Decimal" THEN DecMul(a, b)
  ELSE IF a.t = "int" /\ b.t = "float" THEN IntMulFloat(a, b)
  ELSE Exc("TypeError")

\* a + b where one of the two is a Decimal, as it is in every sum of the
\* program: the other is an int or a Decimal, or the sum is a TypeError
PyAdd(a, b) ==
  IF IsExc(a) THEN a ELSE IF IsExc(b) THEN b
  ELSE IF Numeric(a) /\ Numeric(b) THEN DecAdd(a, b)
  ELSE Exc("TypeError")

\* -b
PyNeg(b) == IF Numeric(b) THEN DecNeg(b) ELSE b
\* a - b is a + (-b), in Python's decimal too
PySub(a, b) == PyAdd(a, PyNeg(b))

\* a / 100
PyDiv100(a) ==
  IF a.t = "int" THEN IntDiv100(a)
  ELSE IF a.t = "Decimal" THEN DecDiv100(a)
  ELSE IF IsExc(a) THEN a
  ELSE Exc("TypeError")

\* Decimal(value)
ToDecimal(value) ==
  CASE value.t = "str" -> ParseDecimal(value.s)
    [] value.t = "int" -> Val("Decimal", value.neg, value.c, 0)
    [] value.t = "float" -> FloatToDecimal(value)
    [] OTHER -> value

\* the default of to_decimal_round's decimal_places
default_decimal_places == 20

\* to_decimal_round(value, decimal_places): no str, int, float quotient or
\* Decimal of the program is NaN, so pd.isna(value) is false and the value
\* is converted and quantized, ROUND_HALF_UP
to_decimal_round(value, decimal_places) ==
  quantize(ToDecimal(value), decimal_places, "ROUND_HALF_UP")

(* ------------------------------- inputs -------------------------------- *)

\* the keys validate_config requires, in the order it checks them
Keys == <<"name", "age", "maximum_age", "pension_fund_value", "annual_income",
          "pct_growth_above_inflation", "pct_charges_above_inflation">>
KeySet == {Keys[i] : i \in 1..Len(Keys)}

\* the ages explored are 60 .. 60 + MaxSpan
MaxSpan == 2
\* how many required keys a configuration may lack
MaxMissing == 1

DigitChar(n) == CHOOSE ch \in DigitChars : DigitVal(ch) = n
\* the text of a natural number of two digits
Text(n) == <<DigitChar(n \div 10), DigitChar(n % 10)>>

NameTexts == {<<"B", "o", "b">>, <<"J", ".", "S">>}
AgeTexts == {Text(n) : n \in 60..(60 + MaxSpan)}
FundTexts == {<<"1", ",", "0", "0", "0">>, <<"2", "4", "6", ".", "9">>,
              <<"0", ".", "0", "0", "5">>,
              <<"1", "0", "0", ",", "0", "0", "0", ",", "0", "0", "0">>}
IncomeTexts == {<<"2", ",", "0", "0", "0">>, <<"0">>, <<"0", ".", "0", "1">>}
GrowthTexts == {<<"5">>, <<"5", ".", "0">>, <<"1", "0", "0", ".", "0">>,
                <<"0", ".", "0">>, <<"5", "%">>}
ChargeTexts == {<<"1">>, <<"1", ".", "0">>, <<"0", ".", "0">>}

\* the complete [Values] sections explored
FullSections ==
  {[name |-> n, age |-> a, maximum_age |-> m, pension_fund_value |-> f,
    annual_income |-> i, pct_growth_above_inflation |-> g,
    pct_charges_above_inflation |-> c] :
     n \in NameTexts, a \in AgeTexts, m \in AgeTexts, f \in FundTexts,
     i \in IncomeTexts, g \in GrowthTexts, c \in ChargeTexts}

\* those, and those with up to MaxMissing required keys left out
ValuesSections ==
  {[k \in KeySet \ missing |-> full[k]] :
     full \in FullSections,
     missing \in {m \in SUBSET KeySet : Cardinality(m) <= MaxMissing}}

(* -------------------------------- state -------------------------------- *)

VARIABLES
  file_exists,  \* os.path.exists(config_path)
  sections,     \* the sections of graph_values.ini
  ini,          \* its [Values] section: key -> text
  pc,           \* where the main thread is
  logger,       \* whether the global logger is set (it starts as None)
  config,       \* validate_config's result
  obj,          \* the AMR_Graph's attributes, <<>> before construction
  df,           \* the frame create_dataframe builds, a sequence of rows
  unrounded,    \* history: df as the loop left it, before line 157
  csv,          \* the rows of <name>_values.csv, <<>> while not written
  chart,        \* the bars of <name>_chart.png, <<>> while not saved
  raised,       \* the exception that ended the main thread, if any
  timer,        \* where the watchdog thread is
  exit_code     \* <<>> while the process runs, then <<code>>

vars == <<file_exists, sections, ini, pc, logger, config, obj, df, unrounded,
          csv, chart, raised, timer, exit_code>>

\* the keys of a file without a [Values] section
NoValues == [k \in {} |-> <<>>]
NoError == [type |-> "none", at |-> "", arg |-> ""]

Init ==
  /\ file_exists \in BOOLEAN
  /\ sections \in {{}, {"Values"}}
  /\ ini \in ValuesSections \cup {NoValues}
  /\ (~file_exists => sections = {})
  /\ ("Values" \in sections <=> ini # NoValues)
  /\ pc = "start"
  /\ logger = FALSE
  /\ config = <<>>
  /\ obj = <<>>
  /\ df = <<>>
  /\ unrounded = <<>>
  /\ csv = <<>>
  /\ chart = <<>>
  /\ raised = NoError
  /\ timer = "unstarted"
  /\ exit_code = <<>>

Running == exit_code = <<>>

\* an uncaught exception ends the main thread, and with it the process:
\* the interpreter exits with status 1 and the daemon thread goes with it
Uncaught(type, at, arg) ==
  /\ raised' = [type |-> type, at |-> at, arg |-> arg]
  /\ pc' = "raised"
  /\ exit_code' = <<1>>

(* ------------------------------ __main__ ------------------------------- *)

\* lines 227-229: the watchdog thread is started before anything else
start_timer ==
  /\ Running /\ pc = "start"
  /\ timer' = "sleeping"
  /\ pc' = "create_logger"
  /\ UNCHANGED <<file_exists, sections, ini, logger, config, obj, df,
                 unrounded, csv, chart, raised, exit_code>>

\* line 235 (create_logger, lines 12-47): the global logger is set
create_logger ==
  /\ Running /\ pc = "create_logger"
  /\ logger' = TRUE
  /\ pc' = "validate_config"
  /\ UNCHANGED <<file_exists, sections, ini, config, obj, df, unrounded,
                 csv, chart, raised, timer, exit_code>>

\* a variant of MissingKeys whose loop stops one key short; C5 has to tell
\* the two apart
MissingKeysButLast(section) ==
  {i \in 1..(Len(Keys) - 1) : Keys[i] \notin DOMAIN section}

\* the required keys the section lacks, as positions in Keys
MissingKeys(section) == {i \in 1..Len(Keys) : Keys[i] \notin DOMAIN section}

\* validate_config (lines 49-75), called on line 238
validate_config ==
  /\ Running /\ pc = "validate_config"
  /\ IF ~file_exists
     THEN /\ Uncaught("FileNotFoundError", "validate_config", "Missing file")
          /\ UNCHANGED config
     ELSE IF "Values" \notin sections
     THEN /\ Uncaught("ValueError", "validate_config", "Values")
          /\ UNCHANGED config
     ELSE IF MissingKeys(ini) # {}
     THEN /\ Uncaught("ValueError", "validate_config",
                      Keys[MinOf(MissingKeys(ini))])
          /\ UNCHANGED config
     ELSE /\ config' = ini
          /\ pc' = "AMR_Graph"
          /\ UNCHANGED <<raised, exit_code>>
  /\ UNCHANGED <<file_exists, sections, ini, logger, obj, df, unrounded,
                 csv, chart, timer>>

(* ------------------------------ AMR_Graph ------------------------------ *)

\* lines 98-105 on a value without commas: only ValueError is caught, so
\* int's failure keeps the string and Decimal's failure (InvalidOperation)
\* leaves __init__
caught(result, value) == IF result.t = "ValueError" THEN Str(value) ELSE result
parsed(value) ==
  caught(IF HasPoint(value)
         THEN to_decimal_round(Str(value), default_decimal_places)
         ELSE ParseInt(value),
         value)

\* lines 95-105: one configuration value made a number where it parses
convert_value(text) == parsed(StripCommas(text))

\* lines 93-108: the attributes set from the section
converted(section) == [k \in DOMAIN section |-> convert_value(section[k])]

\* lines 110-112: the percentages become fractions
with_fractions(attrs) ==
  [k \in DOMAIN attrs |->
     IF k \in {"pct_growth_above_inflation", "pct_charges_above_inflation"}
     THEN PyDiv100(attrs[k]) ELSE attrs[k]]

\* the first key, in the order of Keys (the loop of line 93 goes through the
\* section in the file's order, taken to be that order, and lines 111 and
\* 112 follow it), whose value is an exception
FirstRaised(attrs) == Keys[MinOf({i \in 1..Len(Keys) : IsExc(attrs[Keys[i]])})]

\* the attributes as __init__ leaves them, or the exception that ends it
constructed(attrs) ==
  IF \E k \in DOMAIN attrs : IsExc(attrs[k])
  THEN /\ Uncaught(attrs[FirstRaised(attrs)].t, "__init__", FirstRaised(attrs))
       /\ UNCHANGED obj
  ELSE /\ obj' = attrs
       /\ pc' = "create_dataframe"
       /\ UNCHANGED <<raised, exit_code>>

\* AMR_Graph.__init__ (lines 88-112), called on line 239
init_AMR_Graph ==
  /\ Running /\ pc = "AMR_Graph"
  /\ constructed(with_fractions(converted(config)))
  /\ UNCHANGED <<file_exists, sections, ini, logger, config, df, unrounded,
                 csv, chart, timer>>

(* --------------------------- create_dataframe -------------------------- *)

Row(age, start, growth, charge, ending) ==
  [Age |-> age, pension_fund_value |-> start, projected_growth |-> growth,
   charges |-> charge, ending_fund_value |-> ending]
Columns == {"Age", "pension_fund_value", "projected_growth", "charges",
            "ending_fund_value"}

\* the integer of an int of the program (an age)
IntOf(v) == IF v.neg THEN 0 - NatToInt(v.c) ELSE NatToInt(v.c)

\* lines 118-119, 141-142: one year's growth or charge on a fund value
yearly(fund, rate) ==
  to_decimal_round(PyMul(fund, rate), default_decimal_places)

\* a variant of ending_value that adds the charges; C9 has to tell the two
\* apart
ending_value_charges_added(start, growth, income, charge) ==
  PyAdd(PySub(PyAdd(start, growth), income), charge)

\* lines 127, 150: the fund value the year ends with
ending_value(start, growth, income, charge) ==
  PySub(PySub(PyAdd(start, growth), income), charge)

\* lines 122-128, 145-151: a row whose last cell is worked out from the
\* fund value the year starts with, `shown` being that value's cell
row_of(age, shown, start, growth, charge, income) ==
  Row(age, shown, growth, charge, ending_value(start, growth, income, charge))

\* lines 117-128: the first row, from the attributes
first_row(o) ==
  row_of(o.age,
         to_decimal_round(o.pension_fund_value, default_decimal_places),
         o.pension_fund_value,
         yearly(o.pension_fund_value, o.pct_growth_above_inflation),
         yearly(o.pension_fund_value, o.pct_charges_above_inflation),
         o.annual_income)

Zero == PyInt(0)

\* a variant of previous_end_fund_value that feeds the clamped value into
\* the next row; C2 has to tell the two apart
previous_end_clamped(frame) ==
  IF Negative(frame[Len(frame)].ending_fund_value) THEN Zero
  ELSE frame[Len(frame)].ending_fund_value

\* line 140: the value the next row starts from
previous_end_fund_value(frame) == frame[Len(frame)].ending_fund_value

\* lines 141-151: pass i of the loop, given line 140's value
following(o, i, previous) ==
  row_of(PyInt(IntOf(o.age) + i + 1), previous, previous,
         yearly(previous, o.pct_growth_above_inflation),
         yearly(previous, o.pct_charges_above_inflation),
         o.annual_income)

\* lines 139-151: the row after the rows of frame, i being Len(frame) - 1
new_row(o, frame) ==
  following(o, Len(frame) - 1, previous_end_fund_value(frame))

\* a variant of no_rows that counts the first row again; C1 has to tell the
\* two apart
no_rows_inclusive(o) == IntOf(o.maximum_age) - IntOf(o.age) + 1

\* line 133
no_rows(o) == IntOf(o.maximum_age) - IntOf(o.age)

\* the first column, in the order the row's expressions are evaluated,
\* whose expression raised
RowOrder == <<"projected_growth", "charges", "Age", "pension_fund_value",
              "ending_fund_value">>
Failed(row) == {i \in 1..Len(RowOrder) : IsExc(row[RowOrder[i]])}
FirstFailed(row) == RowOrder[MinOf(Failed(row))]

\* lines 129, 154: the row joins the frame, unless one of its expressions
\* raised
insert(row) ==
  IF Failed(row) # {}
  THEN /\ Uncaught(row[FirstFailed(row)].t, "create_dataframe",
                   FirstFailed(row))
       /\ UNCHANGED df
  ELSE /\ df' = Append(df, row)
       /\ pc' = "rows"
       /\ UNCHANGED <<raised, exit_code>>

\* lines 117-134: the frame of one row (the ages explored are numerals, so
\* line 133 does not raise)
create_first_row ==
  /\ Running /\ pc = "create_dataframe"
  /\ insert(first_row(obj))
  /\ UNCHANGED <<file_exists, sections, ini, logger, config, obj, unrounded,
                 csv, chart, timer>>

\* lines 137-154: one pass of the loop over range(no_rows)
add_row ==
  /\ Running /\ pc = "rows"
  /\ Len(df) - 1 < no_rows(obj)
  /\ insert(new_row(obj, df))
  /\ UNCHANGED <<file_exists, sections, ini, logger, config, obj, unrounded,
                 csv, chart, timer>>

\* the places of Decimal('0.01'), line 157
export_decimal_places == 2

\* a variant of round_cell that rounds halves to even, as the context
\* does; C4 has to tell the two apart
round_cell_half_even(value) ==
  quantize(ToDecimal(value), export_decimal_places, "ROUND_HALF_EVEN")

\* line 157's lambda on one value (no value of the frame is NaN)
round_cell(value) ==
  quantize(ToDecimal(value), export_decimal_places, "ROUND_HALF_UP")

\* int(Decimal): the digits before the point
AsInt(dec) ==
  Val("int", dec.neg /\ NatLen(dec.c) > dec.d, ShiftDown(dec.c, dec.d), 0)

\* lines 157-161: every column rounded, then Age made an integer again
rounded_row(row) ==
  [col \in Columns |->
     IF col = "Age" THEN AsInt(round_cell(row[col])) ELSE round_cell(row[col])]
rounded(frame) == [k \in 1..Len(frame) |-> rounded_row(frame[k])]

\* a variant of clamped_row that clamps every amount of the row; C3 has to
\* tell the two apart
clamped_every_amount(row) ==
  [col \in Columns |->
     IF col # "Age" /\ Negative(row[col]) THEN Zero ELSE row[col]]

\* line 170: the ending values below 0 become 0, nothing else changes
clamped_row(row) ==
  IF Negative(row.ending_fund_value)
  THEN [row EXCEPT !.ending_fund_value = Zero] ELSE row
clamped(frame) == [k \in 1..Len(frame) |-> clamped_row(frame[k])]

\* lines 155-167: the loop is over; the frame is rounded and written
round_and_export ==
  /\ Running /\ pc = "rows"
  /\ Len(df) - 1 >= no_rows(obj)
  /\ unrounded' = df
  /\ df' = rounded(df)
  /\ csv' = df'
  /\ pc' = "clamp"
  /\ UNCHANGED <<file_exists, sections, ini, logger, config, obj, chart,
                 raised, timer, exit_code>>

\* lines 169-174: the frame returned to main() is the clamped one
clamp_and_return ==
  /\ Running /\ pc = "clamp"
  /\ df' = clamped(df)
  /\ pc' = "create_graph"
  /\ UNCHANGED <<file_exists, sections, ini, logger, config, obj, unrounded,
                 csv, chart, raised, timer, exit_code>>

\* create_graph (lines 176-201): one bar per row, saved as <name>_chart.png
create_graph ==
  /\ Running /\ pc = "create_graph"
  /\ chart' = [k \in 1..Len(df) |-> <<df[k].Age, df[k].ending_fund_value>>]
  /\ pc' = "exit"
  /\ UNCHANGED <<file_exists, sections, ini, logger, config, obj, df,
                 unrounded, csv, raised, timer, exit_code>>

\* lines 244-245: sys.exit(0)
sys_exit ==
  /\ Running /\ pc = "exit"
  /\ exit_code' = <<0>>
  /\ pc' = "done"
  /\ UNCHANGED <<file_exists, sections, ini, logger, config, obj, df,
                 unrounded, csv, chart, raised, timer>>

(* -------------------------- exit_after_5_mins -------------------------- *)

\* line 215: time.sleep(300) returns; how far the main thread has got by
\* then is not constrained
sleep_returns ==
  /\ Running /\ timer = "sleeping"
  /\ timer' = "woke"
  /\ UNCHANGED <<file_exists, sections, ini, pc, logger, config, obj, df,
                 unrounded, csv, chart, raised, exit_code>>

\* line 216: logger.error(...); on the initial None it raises AttributeError,
\* which ends the watchdog thread and leaves the process running
log_timeout ==
  /\ Running /\ timer = "woke"
  /\ timer' = IF logger THEN "logged" ELSE "dead"
  /\ UNCHANGED <<file_exists, sections, ini, pc, logger, config, obj, df,
                 unrounded, csv, chart, raised, exit_code>>

\* a variant of force_exit that ends the process with status 0; C8 has to
\* tell the two apart
force_exit_status_0 ==
  /\ Running /\ timer = "logged"
  /\ exit_code' = <<0>>
  /\ timer' = "killed"
  /\ UNCHANGED <<file_exists, sections, ini, pc, logger, config, obj, df,
                 unrounded, csv, chart, raised>>

\* line 219: os._exit(1)
force_exit ==
  /\ Running /\ timer = "logged"
  /\ exit_code' = <<1>>
  /\ timer' = "killed"
  /\ UNCHANGED <<file_exists, sections, ini, pc, logger, config, obj, df,
                 unrounded, csv, chart, raised>>

Next ==
  \/ start_timer
  \/ create_logger
  \/ validate_config
  \/ init_AMR_Graph
  \/ create_first_row
  \/ add_row
  \/ round_and_export
  \/ clamp_and_return
  \/ create_graph
  \/ sys_exit
  \/ sleep_returns
  \/ log_timeout
  \/ force_exit

Spec == Init /\ [][Next]_vars

(* ------------------------------- claims -------------------------------- *)

\* the configuration file has its section and all the required keys
Complete == file_exists /\ "Values" \in sections /\ KeySet \subseteq DOMAIN ini
\* the number an age text (two digits) states
AgeOf(text) == 10 * DigitVal(text[1]) + DigitVal(text[2])
\* the Decimal a text states
Dec(text) == ParseDecimal(text)
\* |a|, a <= b and a < b for ints and Decimals
Magnitude(a) == [a EXCEPT !.neg = FALSE]
LessEq(a, b) == ~Negative(PySub(b, a))
Less(a, b) == Negative(PySub(a, b))

\* C1: when the configuration's ages are integers with age <= maximum_age,
\* the series create_dataframe builds (the exported table, and the frame it
\* returns) has exactly maximum_age - age + 1 rows, and its row k (0-based)
\* has Age = age + k
C1_RowCountAndAges ==
  csv # <<>> /\ AgeOf(ini.age) <= AgeOf(ini.maximum_age) =>
    /\ Len(csv) = AgeOf(ini.maximum_age) - AgeOf(ini.age) + 1
    /\ Len(df) = Len(csv)
    /\ \A k \in 1..Len(csv) :
         /\ csv[k].Age = PyInt(AgeOf(ini.age) + k - 1)
         /\ df[k].Age = csv[k].Age

\* a table of three rows, ages 60, 61 and 62, has been written
C1_Witness ==
  /\ Len(csv) = 3
  /\ AgeOf(ini.age) = 60 /\ AgeOf(ini.maximum_age) = 62
  /\ csv[1].Age = PyInt(60) /\ csv[3].Age = PyInt(62)

\* C2: every row after the first starts from the unclamped ending value of
\* the row before it, negative or not: in the frame while the loop builds
\* it, in the exported table, and in the returned frame, whose own ending
\* values are clamped
C2_StartIsPreviousEnd ==
  /\ \A k \in 2..Len(unrounded) :
       unrounded[k].pension_fund_value = unrounded[k - 1].ending_fund_value
  /\ \A k \in 2..Len(csv) :
       csv[k].pension_fund_value = csv[k - 1].ending_fund_value
  /\ \A k \in 2..Len(df) :
       df[k].pension_fund_value =
         IF csv = <<>> THEN df[k - 1].ending_fund_value
         ELSE csv[k - 1].ending_fund_value

\* fund 1,000, income 2,000, growth 5.0, charges 1.0: the first row ends at
\* -960, the second starts at -960 in the table and in the returned frame,
\* whose first row ends at 0
C2_Witness ==
  /\ pc = "create_graph"
  /\ Len(csv) >= 2
  /\ csv[1].ending_fund_value = Dec(<<"-", "9", "6", "0">>)
  /\ csv[2].pension_fund_value = Dec(<<"-", "9", "6", "0">>)
  /\ df[1].ending_fund_value = Zero
  /\ df[2].pension_fund_value = Dec(<<"-", "9", "6", "0">>)

\* C3: the exported table holds the rounded values of the frame as the loop
\* left it, negative ending values included; before the clamp the frame is
\* the table, and the frame returned for the chart is the table in every
\* cell except that each ending value below zero is zero
C3_ClampOnlyEndingValues ==
  /\ Len(csv) = Len(unrounded)
  /\ \A k \in 1..Len(csv) :
       csv[k].ending_fund_value = round_cell(unrounded[k].ending_fund_value)
  /\ pc = "clamp" => df = csv
  /\ pc \in {"create_graph", "exit", "done"} =>
       /\ Len(df) = Len(csv)
       /\ \A k \in 1..Len(csv) : \A col \in Columns :
            df[k][col] =
              IF col = "ending_fund_value" /\ Negative(csv[k][col])
              THEN Zero ELSE csv[k][col]

\* a returned frame whose second row has a negative starting value and a
\* negative growth, and an ending value that was negative in the table
C3_Witness ==
  /\ pc = "create_graph"
  /\ Len(df) >= 2
  /\ Negative(csv[2].ending_fund_value)
  /\ df[2].ending_fund_value = Zero
  /\ Negative(df[2].pension_fund_value)
  /\ Negative(df[2].projected_growth)

Half == Dec(<<"0", ".", "0", "0", "5">>)

\* r is v rounded to cents, halves away from zero: r has no digit beyond the
\* cents, is within half a cent of v, and is the larger in magnitude when it
\* is exactly half a cent away
RoundedHalfUp(r, v, distance) ==
  /\ r.d <= 2
  /\ LessEq(distance, Half)
  /\ distance = Half => Less(Magnitude(v), Magnitude(r))

\* C4: every amount of the exported table is the value of the frame as the
\* loop left it, rounded to cents with halves away from zero, for positive
\* and for negative values
C4_ExportRoundsHalfUp ==
  /\ Len(csv) = Len(unrounded)
  /\ \A k \in 1..Len(csv) : \A col \in Columns \ {"Age"} :
       RoundedHalfUp(csv[k][col], unrounded[k][col],
                     Magnitude(PySub(csv[k][col], unrounded[k][col])))

\* fund 246.9, growth 5.0, income 2,000: the growth 12.345 is exported as
\* 12.35 and the ending value -1740.755 as -1740.76
C4_Witness ==
  /\ csv # <<>>
  /\ unrounded[1].projected_growth = Dec(<<"1", "2", ".", "3", "4", "5">>)
  /\ csv[1].projected_growth = Dec(<<"1", "2", ".", "3", "5">>)
  /\ unrounded[1].ending_fund_value =
       Dec(<<"-", "1", "7", "4", "0", ".", "7", "5", "5">>)
  /\ csv[1].ending_fund_value =
       Dec(<<"-", "1", "7", "4", "0", ".", "7", "6">>)

\* C5: when the file, its Values section or a required key is missing,
\* the main thread gets no further than validate_config, whose error names
\* what is missing; no AMR_Graph is constructed and neither the table nor
\* the chart is ever written
C5_ValidationFailureStopsRun ==
  ~Complete =>
    /\ pc \in {"start", "create_logger", "validate_config", "raised"}
    /\ config = <<>> /\ obj = <<>> /\ df = <<>> /\ csv = <<>> /\ chart = <<>>
    /\ exit_code # <<0>>
    /\ pc = "raised" =>
         /\ raised.at = "validate_config"
         /\ IF ~file_exists
            THEN raised.type = "FileNotFoundError" /\ raised.arg = "Missing file"
            ELSE IF "Values" \notin sections
            THEN raised.type = "ValueError" /\ raised.arg = "Values"
            ELSE raised.type = "ValueError" /\ raised.arg \in KeySet \ DOMAIN ini

\* a file without annual_income: the run has ended with an error naming it
C5_Witness ==
  /\ pc = "raised"
  /\ DOMAIN ini = KeySet \ {"annual_income"}
  /\ raised.arg = "annual_income"
  /\ exit_code = <<1>>
  /\ csv = <<>> /\ chart = <<>>

\* the parse __init__ chooses for the text does not succeed
Unparsed(text) ==
  IF HasPoint(StripCommas(text)) THEN IsExc(ParseDecimal(StripCommas(text)))
  ELSE IsExc(ParseInt(StripCommas(text)))

\* C6: construction does not fail on a value whose parse does not succeed
\* (the parse's exception does not leave __init__), and the attribute of
\* such a value is its raw string
C6_UnparsedValueIsRetained ==
  /\ ~(pc = "raised" /\ raised.at = "__init__"
        /\ raised.type \in {"InvalidOperation", "ValueError"}
        /\ Unparsed(config[raised.arg]))
  /\ obj # <<>> =>
       \A k \in DOMAIN config :
         Unparsed(config[k]) => obj[k] = Str(StripCommas(config[k]))

\* C7: a configuration with maximum_age < age is rejected before the
\* projection: no row is computed and neither the table nor the chart is
\* written
C7_NegativeRowCountIsRejected ==
  Complete /\ AgeOf(ini.maximum_age) < AgeOf(ini.age) =>
    df = <<>> /\ csv = <<>> /\ chart = <<>>

Recurrence(start, growth_rate, income, charge_rate) ==
  PySub(PySub(PyAdd(start, PyMul(start, growth_rate)), income),
        PyMul(start, charge_rate))

RECURSIVE Replayed(_, _, _, _, _)
\* the starting value of row k (1-based) when the recurrence is re-applied
\* from the first row's starting value
Replayed(first, growth_rate, income, charge_rate, k) ==
  IF k = 1 THEN first
  ELSE Recurrence(Replayed(first, growth_rate, income, charge_rate, k - 1),
                  growth_rate, income, charge_rate)

Cent == Dec(<<"0", ".", "0", "1">>)
Close(a, b) == LessEq(Magnitude(PySub(a, b)), Cent)

\* the exported row agrees to a cent with the row the recurrence gives for
\* the replayed starting value
Reproduced(row, start, growth_rate, income, charge_rate) ==
  /\ Close(row.pension_fund_value, start)
  /\ Close(row.projected_growth, PyMul(start, growth_rate))
  /\ Close(row.charges, PyMul(start, charge_rate))
  /\ Close(row.ending_fund_value,
           Recurrence(start, growth_rate, income, charge_rate))

\* every row of the table after the first is reproduced from the first
\* row's starting value, the rates and the income
RoundTrip ==
  \A k \in 2..Len(csv) :
    Reproduced(csv[k],
               Replayed(csv[1].pension_fund_value,
                        ToDecimal(obj.pct_growth_above_inflation),
                        obj.annual_income,
                        ToDecimal(obj.pct_charges_above_inflation), k),
               ToDecimal(obj.pct_growth_above_inflation),
               obj.annual_income,
               ToDecimal(obj.pct_charges_above_inflation))

\* C9's replay is exact where the fund value of the configuration has no
\* digit beyond the cents
CentsOnly(text) == AfterPoint(StripCommas(text)) <= 2

\* C9: for a configuration whose pension_fund_value has at most two
\* fractional digits, re-applying the recurrence from the first exported
\* row reproduces every later exported row to a cent
C9_RoundTripFromExactStart ==
  csv # <<>> /\ CentsOnly(ini.pension_fund_value) => RoundTrip

\* fund 246.9, growth 5.0: a table of three rows
C9_Witness ==
  /\ Len(csv) = 3
  /\ csv[1].pension_fund_value = Dec(<<"2", "4", "6", ".", "9">>)
  /\ csv[2].projected_growth # csv[1].projected_growth
  /\ csv[3].projected_growth # csv[2].projected_growth

\* C9 as stated: the round trip holds for every configuration
C9_RoundTripEveryConfiguration == csv # <<>> => RoundTrip

\* C10: with both percentages entered as whole numbers, a numeric fund value
\* and ages with age <= maximum_age, create_dataframe raises no TypeError
C10_WholeNumberPercentagesComplete ==
  /\ Complete
  /\ AllDigits(ini.pct_growth_above_inflation)
  /\ AllDigits(ini.pct_charges_above_inflation)
  /\ AgeOf(ini.age) <= AgeOf(ini.maximum_age)
  => ~(pc = "raised" /\ raised.at = "create_dataframe"
         /\ raised.type = "TypeError")
====
